---- MODULE Spec2Model ----
(***************************************************************************)
(* Model of src/bot-server.js: a tabular Q-learning WebSocket server.      *)
(*                                                                         *)
(* State: the process-wide qtable and EPSILON, the persistence file, and   *)
(* per connection the _botState map.  One action per event handler         *)
(* (connection, message, close, the autosave timer, the HTTP request       *)
(* handler).  The keep-alive timer and the pong handler touch only         *)
(* ws.isAlive and end, at most, in the close handler, which Close models.  *)
(* An uncaught exception thrown by a handler ends the process              *)
(* (crashed = TRUE): its memory is gone, only the file stays, and nothing  *)
(* runs afterwards.                                                        *)
(*                                                                         *)
(* JavaScript numbers are modelled as exact rationals n / 25^e (0.12 and   *)
(* 0.96 are 3/25 and 24/25) together with NaN, +Infinity, -Infinity; array *)
(* holes / missing properties are "undef" and JSON null is "null".         *)
(* Rounding of IEEE doubles is not modelled.                               *)
(***************************************************************************)
EXTENDS Integers, Sequences, FiniteSets, TLC

\* ------------------------------------------------------------------ bounds
MaxObs     == 2   \* observation messages handled in one run
MaxUpdates == 1   \* updateQ calls in one run (keeps 25^e inside TLC integers)
MaxSaves   == 1   \* save messages and /save requests in one run
MaxPairObs     == 2   \* the same with two clients
MaxPairUpdates == 2
MaxPolicyObs == 1   \* observations per run when only the policy is exercised
MaxTicks   == 1   \* autosave/decay timer firings in one run

\* ------------------------------------------------------- JavaScript values
\* k: num (n / 25^e), nan, pinf, ninf, undef, null, bool (n = 1 for true), str (s)
JS(k, n, e, s) == [k |-> k, n |-> n, e |-> e, s |-> s]
Num(n, e) == JS("num", n, e, "")
NaN       == JS("nan", 0, 0, "")
PInf      == JS("pinf", 0, 0, "")
NInf      == JS("ninf", 0, 0, "")
Undef     == JS("undef", 0, 0, "")
Null      == JS("null", 0, 0, "")
True      == JS("bool", 1, 0, "")
False     == JS("bool", 0, 0, "")
Str(s)    == JS("str", 0, 0, s)
Zero      == Num(0, 0)

RECURSIVE Pow25(_)
Pow25(e) == IF e = 0 THEN 1 ELSE 25 * Pow25(e - 1)

\* canonical form of n / 25^e
RECURSIVE Norm(_, _)
Norm(n, e) == IF e > 0 /\ n % 25 = 0 THEN Norm(n \div 25, e - 1) ELSE Num(n, e)

MaxOf(a, b) == IF a >= b THEN a ELSE b

\* Number("..."): the strings the model sends; any other text is not numeric
StrToNumber(s) == CASE s = ""  -> Zero
                    [] s = "0" -> Zero
                    [] s = "1" -> Num(1, 0)
                    [] s = "5" -> Num(5, 0)
                    [] OTHER   -> NaN

\* ToNumber: undefined -> NaN, null -> 0, booleans -> 0/1, strings parsed
ToNumber(v) == CASE v.k = "undef" -> NaN
                 [] v.k = "null"  -> Zero
                 [] v.k = "bool"  -> Num(v.n, 0)
                 [] v.k = "str"   -> StrToNumber(v.s)
                 [] OTHER         -> v

\* ToBoolean
Truthy(v) == CASE v.k \in {"undef", "null", "nan"} -> FALSE
               [] v.k \in {"num", "bool"} -> v.n # 0
               [] v.k = "str" -> v.s # ""
               [] OTHER -> TRUE

\* a || b
Or(a, b) == IF Truthy(a) THEN a ELSE b

IsFinite(v) == v.k = "num"

\* the numerator of a finite value at exponent e >= v.e
AtExp(v, e) == v.n * Pow25(e - v.e)

Sign(v) == CASE v.k = "pinf" -> 1
             [] v.k = "ninf" -> -1
             [] v.k = "num" /\ v.n > 0 -> 1
             [] v.k = "num" /\ v.n < 0 -> -1
             [] OTHER -> 0

Neg(v) == CASE v.k = "num"  -> Num(-v.n, v.e)
            [] v.k = "pinf" -> NInf
            [] v.k = "ninf" -> PInf
            [] OTHER        -> v

\* a + b on numbers
Add(a0, b0) ==
  LET a == ToNumber(a0)
      b == ToNumber(b0)
  IN  CASE a.k = "nan" \/ b.k = "nan" -> NaN
        [] a.k = "num" /\ b.k = "num" ->
             LET e == MaxOf(a.e, b.e) IN Norm(AtExp(a, e) + AtExp(b, e), e)
        [] a.k = "num" -> b
        [] b.k = "num" -> a
        [] a.k = b.k   -> a
        [] OTHER       -> NaN

Sub(a, b) == Add(a, Neg(ToNumber(b)))

\* a * b on numbers
Mul(a0, b0) ==
  LET a == ToNumber(a0)
      b == ToNumber(b0)
  IN  CASE a.k = "nan" \/ b.k = "nan" -> NaN
        [] a.k = "num" /\ b.k = "num" -> Norm(a.n * b.n, a.e + b.e)
        [] Sign(a) * Sign(b) = 0 -> NaN
        [] Sign(a) * Sign(b) > 0 -> PInf
        [] OTHER -> NInf

\* a > b  (false when either side is NaN)
Gt(a0, b0) ==
  LET a == ToNumber(a0)
      b == ToNumber(b0)
  IN  CASE a.k = "nan" \/ b.k = "nan" -> FALSE
        [] a.k = "num" /\ b.k = "num" ->
             LET e == MaxOf(a.e, b.e) IN AtExp(a, e) > AtExp(b, e)
        [] a.k = "pinf" -> b.k # "pinf"
        [] a.k = "ninf" -> FALSE
        [] OTHER -> b.k = "ninf"

\* Math.max(...row): -Infinity for no arguments, NaN if any argument is NaN
RECURSIVE MathMaxFrom(_, _, _)
MathMaxFrom(row, i, acc) ==
  IF i > Len(row) THEN acc
  ELSE LET x == ToNumber(row[i])
       IN  IF x.k = "nan" \/ acc.k = "nan" THEN MathMaxFrom(row, i + 1, NaN)
           ELSE MathMaxFrom(row, i + 1, IF Gt(x, acc) THEN x ELSE acc)

MathMax(row) == MathMaxFrom(row, 1, NInf)

\* Math.min(a, b) / Math.max(a, b): NaN if either argument is NaN
MathMin2(a0, b0) ==
  LET a == ToNumber(a0)
      b == ToNumber(b0)
  IN  IF a.k = "nan" \/ b.k = "nan" THEN NaN ELSE IF Gt(a, b) THEN b ELSE a

MathMax2(a0, b0) ==
  LET a == ToNumber(a0)
      b == ToNumber(b0)
  IN  IF a.k = "nan" \/ b.k = "nan" THEN NaN ELSE IF Gt(b, a) THEN b ELSE a

\* Math.round(x): nearest integer, halves towards +Infinity
MathRound(x0) ==
  LET x == ToNumber(x0)
  IN  IF x.k # "num" THEN x
      ELSE Num((2 * x.n + Pow25(x.e)) \div (2 * Pow25(x.e)), 0)

\* Math.floor(x / d) for an integer d > 0
FloorDiv(x0, d) ==
  LET x == ToNumber(x0)
  IN  IF x.k # "num" THEN x ELSE Num(x.n \div (d * Pow25(x.e)), 0)

\* `${number}` for the numbers discretize can produce
NumToString(v) == CASE v.k = "num"  -> ToString(v.n)
                    [] v.k = "nan"  -> "NaN"
                    [] v.k = "pinf" -> "Infinity"
                    [] OTHER        -> "-Infinity"

\* ---------------------------------------------------------- configuration
ALPHA == Num(3, 1)     \* 0.12
GAMMA == Num(24, 1)    \* 0.96

\* ACTIONS in the source (a reserved word of TLA+)
ActionList == << "MOVE_TO_PLAYER", "MOVE_RANDOM", "SHOOT", "PICK_CRATE", "RETREAT", "IDLE" >>

\* EPSILON is kept exactly: Rate(n, t) is n / (EScale * 2000^t), t counting
\* the multiplications by 0.9995 = 1999 / 2000 it went through
EScale     == 200
Rate(n, t) == [n |-> n, t |-> t]
EpsDefault == Rate(EScale \div 4, 0)       \* 0.25
EpsFloor   == Rate(EScale \div 100, 0)     \* 0.01

RECURSIVE Pow(_, _)
Pow(b, e) == IF e = 0 THEN 1 ELSE b * Pow(b, e - 1)

\* Math.max(0.01, EPSILON * 0.9995)
EpsDecay(eps) ==
  IF eps.n * 1999 <= EpsFloor.n * Pow(2000, eps.t + 1)
  THEN EpsFloor
  ELSE Rate(eps.n * 1999, eps.t + 1)

\* ------------------------------------------------------------- discretize
\* an observation record; a field the client left out is Undef
ObsRec(hp, ammo, dist, inZone, hasKnife) ==
  [hp |-> hp, ammo |-> ammo, dist |-> dist, inZone |-> inZone, hasKnife |-> hasKnife]

EmptyObs == ObsRec(Undef, Undef, Undef, Undef, Undef)

hpBucket(obs) ==
  FloorDiv(MathMax2(Zero, MathMin2(Num(100, 0), MathRound(Or(obs.hp, Zero)))), 25)

ammoBucket(obs) == IF Truthy(obs.ammo) /\ Gt(obs.ammo, Zero) THEN 1 ELSE 0

distBucket(obs) ==
  MathMin2(Num(4, 0), FloorDiv(MathMax2(Zero, MathRound(Or(obs.dist, Num(999, 0)))), 20))

zoneBit(obs)  == IF Truthy(obs.inZone) THEN 1 ELSE 0
knifeBit(obs) == IF Truthy(obs.hasKnife) THEN 1 ELSE 0

discretize(obs) ==
  NumToString(hpBucket(obs)) \o "|" \o ToString(ammoBucket(obs)) \o "|"
    \o NumToString(distBucket(obs)) \o "|" \o ToString(zoneBit(obs)) \o "|"
    \o ToString(knifeBit(obs))

\* ------------------------------------------------------------- the table
\* qtable maps state keys to rows; qprim is Undef while qtable is an object and
\* holds the value when the loaded file parsed to a truthy non-object.
Conns == {"c1", "c2"}

VARIABLES
  qtable,     \* rows of the Q-table (when it is an object)
  qprim,      \* the loaded primitive, or Undef
  EPSILON,    \* exploration rate, a Rate
  disk,       \* content of qtable.json
  conn,       \* per connection: "new", "open" or "closed"
  botState,   \* per connection: ws._botState
  crashed,    \* an uncaught exception ended the process
  out,        \* what the last handler sent
  last,       \* the last event handled: its kind, connection and bot
  loaded,     \* history: the table as loaded at startup
  configured, \* history: EPSILON as configured at startup
  applied,    \* history: the arguments of the updateQ calls, in order
  nobs, nsave, nticks

mem  == << qtable, qprim, EPSILON, conn, botState, loaded, configured, applied,
          nobs, nsave, nticks >>
vars == << qtable, qprim, EPSILON, disk, conn, botState, crashed, out, last,
           loaded, configured, applied, nobs, nsave, nticks >>

EmptyFn == [k \in {} |-> 0]

\* f with f[x] = v unless f[x] is already there
PutIfAbsent(f, x, v) ==
  [k \in DOMAIN f \cup {x} |-> IF k = x /\ x \notin DOMAIN f THEN v ELSE f[k]]

\* f with f[x] = v
Put(f, x, v) == [k \in DOMAIN f \cup {x} |-> IF k = x THEN v ELSE f[k]]

\* f without x
Del(f, x) == [k \in DOMAIN f \ {x} |-> f[k]]

RECURSIVE Fill(_, _)
Fill(n, v) == IF n = 0 THEN << >> ELSE Fill(n - 1, v) \o << v >>

\* row[i] with a 0-based index; undefined past the end
At(row, i) == IF i < Len(row) THEN row[i + 1] ELSE Undef

\* row[i] = v with a 0-based index; assigning past the end leaves holes
SetAt(row, i, v) ==
  IF i < Len(row) THEN [row EXCEPT ![i + 1] = v]
  ELSE row \o Fill(i - Len(row), Undef) \o << v >>

\* ensureState: nothing sticks to a primitive qtable
ensureState(q, prim, key) ==
  IF prim.k # "undef" \/ key \in DOMAIN q THEN q
  ELSE Put(q, key, Fill(Len(ActionList), Zero))

\* the scan taking a later entry that equals the best so far
RECURSIVE ScanLast(_, _, _, _)
ScanLast(qvals, i, bestIdx, bestV) ==
  IF i >= Len(qvals) THEN bestIdx
  ELSE IF ~Gt(bestV, At(qvals, i))
       THEN ScanLast(qvals, i + 1, i, ToNumber(At(qvals, i)))
       ELSE ScanLast(qvals, i + 1, bestIdx, bestV)

\* the greedy scan of chooseAction, i is 0-based
RECURSIVE Scan(_, _, _, _)
Scan(qvals, i, bestIdx, bestV) ==
  IF i >= Len(qvals) THEN bestIdx
  ELSE IF Gt(At(qvals, i), bestV) THEN Scan(qvals, i + 1, i, ToNumber(At(qvals, i)))
       ELSE Scan(qvals, i + 1, bestIdx, bestV)

\* the two Math.random() draws: explore with a random index, or exploit
RandomIdx == {4}    \* the sampled values of Math.floor(Math.random() * 6)
Draws == [explore : {TRUE}, idx : RandomIdx] \cup [explore : {FALSE}, idx : {0}]

\* Math.random() is in [0, 1)
DrawPossible(eps, d) ==
  IF d.explore THEN eps.n > 0 ELSE eps.n < EScale * Pow(2000, eps.t)

\* chooseAction after ensureState: throws reading qvals.length of undefined
chooseAction(q, prim, key, d) ==
  IF d.explore THEN [throws |-> FALSE, idx |-> d.idx]
  ELSE IF prim.k # "undef" THEN [throws |-> TRUE, idx |-> 0]
  ELSE [throws |-> FALSE, idx |-> Scan(q[key], 0, 0, NInf)]

\* the value stored if the best next value were not discounted
NewQNoDiscount(qsa, r, maxNext) == Add(qsa, Mul(ALPHA, Sub(Add(r, maxNext), qsa)))

\* the value updateQ stores
NewQ(qsa, r, maxNext) == Add(qsa, Mul(ALPHA, Sub(Add(r, Mul(GAMMA, maxNext)), qsa)))

\* updateQ computing from the value the entry had at startup
updateQStale(q, s, a, r, sNext) ==
  LET q2  == ensureState(ensureState(q, Undef, s), Undef, sNext)
      old == ensureState(loaded, Undef, s)
  IN  [q2 EXCEPT ![s] = SetAt(q2[s], a, NewQ(At(old[s], a), r, MathMax(q2[sNext])))]

\* updateQ taking the best value of the row of s itself
updateQOwnRow(q, s, a, r, sNext) ==
  LET q2 == ensureState(ensureState(q, Undef, s), Undef, sNext)
  IN  [q2 EXCEPT ![s] = SetAt(q2[s], a, NewQ(At(q2[s], a), r, MathMax(q2[s])))]

\* updateQ on an object table (on a primitive qtable[s][a] throws)
updateQ(q, s, a, r, sNext) ==
  LET q2 == ensureState(ensureState(q, Undef, s), Undef, sNext)
  IN  [q2 EXCEPT ![s] = SetAt(q2[s], a, NewQ(At(q2[s], a), r, MathMax(q2[sNext])))]

\* ------------------------------------------------------------ persistence
File(k, v, rows) == [k |-> k, v |-> v, rows |-> rows]
NoFile     == File("absent", Undef, EmptyFn)
BadFile    == File("text", Undef, EmptyFn)        \* unreadable, or not JSON
PrimFile(v) == File("prim", v, EmptyFn)           \* JSON of a non-object
ObjFile(rows) == File("object", Undef, rows)

\* JSON.stringify of an array element: NaN, +-Infinity and holes become null
JsonElem(v) == IF v.k \in {"nan", "pinf", "ninf", "undef"} THEN Null ELSE v

RECURSIVE JsonRow(_)
JsonRow(row) == IF row = << >> THEN << >>
                ELSE << JsonElem(Head(row)) >> \o JsonRow(Tail(row))

\* JSON.stringify(qtable)
Serialize(q, prim) ==
  IF prim.k # "undef" THEN PrimFile(prim)
  ELSE ObjFile([k \in DOMAIN q |-> JsonRow(q[k])])

\* the startup load: qtable = JSON.parse(raw) || {}, {} when it throws
LoadRows(f) == IF f.k = "object" THEN f.rows ELSE EmptyFn
LoadPrim(f) == IF f.k = "prim" /\ Truthy(f.v) THEN f.v ELSE Undef

\* fs.writeFileSync inside try/catch: the write happens or fails
Written(d, q, prim) == {Serialize(q, prim), d}

\* ------------------------------------------------------------------ inputs
\* a transport payload. j: "text" (JSON.parse throws), "null" (the JSON literal
\* null), "prim" (any other JSON without fields: a number, a string, an array)
\* or "obj". obs is msg.obs of an observation and msg.nextObs of a reward,
\* {} when the field is missing.
Msg(j, type, botId, obs, reward) ==
  [j |-> j, type |-> type, botId |-> botId, obs |-> obs, reward |-> reward]

SpecObs == ObsRec(Num(80, 0), Zero, Num(5, 0), True, False)   \* "3|0|0|1|0"

BotIdInputs  == {Undef, Str("b1")}
ObsInputs    == {SpecObs, EmptyObs}
RewardInputs == {Num(5, 0), Undef, Str("abc")}

ObsMsgs    == {Msg("obj", "obs", b, o, Undef) : b \in BotIdInputs, o \in ObsInputs}
RewardMsgs == {Msg("obj", "reward", b, o, r) :
                 b \in BotIdInputs, o \in ObsInputs, r \in RewardInputs}
OtherMsgs  == {Msg("text", "", Undef, EmptyObs, Undef),
               Msg("null", "", Undef, EmptyObs, Undef),
               Msg("prim", "", Undef, EmptyObs, Undef),
               Msg("obj", "save", Undef, EmptyObs, Undef),
               Msg("obj", "ping", Undef, EmptyObs, Undef),
               Msg("obj", "hello", Undef, EmptyObs, Undef)}
Msgs == ObsMsgs \cup RewardMsgs \cup OtherMsgs

\* String(x) for the identifiers the model sends
ToStr(v) == CASE v.k = "str"  -> v.s
              [] v.k = "bool" -> IF v.n = 1 THEN "true" ELSE "false"
              [] v.k = "null" -> "null"
              [] v.k = "undef" -> "undefined"
              [] OTHER        -> NumToString(v)

\* String(msg.botId || 'unknown')
BotIdOf(m) == ToStr(Or(m.botId, Str("unknown")))

\* Number(msg.reward || 0)
RewardOf(m) == ToNumber(Or(m.reward, Zero))

\* qtable.json at startup: absent, or a table this server saved earlier
LoadedRow  == << Zero, Zero, Zero, Num(1, 0), Zero, Zero >>
DiskInputs == { NoFile, ObjFile(Put(EmptyFn, discretize(SpecObs), LoadedRow)) }

\* qtable.json at startup: JSON that is not a table of rows of 6 numbers
LongRow    == << Zero, Zero, Zero, Zero, Zero, Zero, Num(1, 0) >>
ShortRow   == << Num(1, 0), Num(2, 0) >>
ForeignDiskInputs ==
  { PrimFile(Num(5, 0)),
    ObjFile(Put(EmptyFn, discretize(SpecObs), LongRow)),
    ObjFile(Put(EmptyFn, discretize(EmptyObs), ShortRow)) }

\* observations for discretize: fields absent, at and around the bucket
\* limits, out of range, fractional (0.4 and 19.6) and not numeric
HpInputs   == {Undef, Zero, Num(24, 0), Num(25, 0), Num(80, 0), Num(99, 0), Num(100, 0),
               Num(150, 0), Num(-5, 0), Str("abc")}
AmmoInputs == {Undef, Zero, Num(3, 0)}
DistInputs == {Undef, Zero, Num(5, 0), Num(19, 0), Num(20, 0), Num(79, 0), Num(80, 0),
               Num(500, 0), Num(-7, 0), Num(10, 1), Num(490, 1), Str("abc")}
FlagInputs == {Undef, True, False}
KeyObsInputs ==
  {ObsRec(hp, ammo, dist, inZone, hasKnife) :
     hp \in HpInputs, ammo \in AmmoInputs, dist \in DistInputs,
     inZone \in FlagInputs, hasKnife \in {Undef, True}}

\* files holding one row of six entries drawn from -1, 0 and 2
PolicyVals == {Num(-1, 0), Zero, Num(2, 0)}
PolicyDiskInputs ==
  {NoFile} \cup {ObjFile(Put(EmptyFn, discretize(SpecObs), row)) :
                   row \in [1 .. Len(ActionList) -> PolicyVals]}

\* parseFloat(process.env.EPSILON) || 0.25: unset, 0.005, 0.01, 1, 1.5 and -1
EpsilonInputs ==
  {EpsDefault, Rate(1, 0), EpsFloor, Rate(EScale, 0), Rate(3 * (EScale \div 2), 0),
   Rate(-EScale, 0)}

\* ------------------------------------------------------------------- state
NullState == [null |-> TRUE, recs |-> EmptyFn]      \* ws._botState = null
NewState  == [null |-> FALSE, recs |-> EmptyFn]     \* ws._botState = {}
Rec(state, actionIdx) == [state |-> state, actionIdx |-> actionIdx]
Call(c, s, a, r, sNext) == [c |-> c, s |-> s, a |-> a, r |-> r, sNext |-> sNext]
\* greedy: an obs event whose Math.random() draw was not below EPSILON
Event(ev, c, bot) == [ev |-> ev, c |-> c, bot |-> bot, greedy |-> FALSE]
Reply(to, type, botId, action) ==
  [to |-> to, type |-> type, botId |-> botId, action |-> action]

\* the module's top level, run once at startup
Startup(files, rates) ==
  /\ disk \in files
  /\ qtable = LoadRows(disk)
  /\ qprim = LoadPrim(disk)
  /\ EPSILON \in rates
  /\ conn = [c \in Conns |-> "new"]
  /\ botState = [c \in Conns |-> NullState]
  /\ crashed = FALSE
  /\ out = << >>
  /\ last = Event("start", "", "")
  /\ loaded = qtable
  /\ configured = EPSILON
  /\ applied = << >>
  /\ nobs = 0 /\ nsave = 0 /\ nticks = 0

Init == Startup(DiskInputs, {EpsDefault})

\* an uncaught exception: the process and everything in its memory are gone
Throw ==
  /\ crashed' = TRUE
  /\ qtable' = EmptyFn /\ qprim' = Undef /\ EPSILON' = Rate(0, 0)
  /\ conn' = [c \in Conns |-> "closed"]
  /\ botState' = [c \in Conns |-> NullState]
  /\ loaded' = EmptyFn /\ applied' = << >> /\ configured' = Rate(0, 0)
  /\ nobs' = 0 /\ nsave' = 0 /\ nticks' = 0
  /\ out' = << >>
  /\ UNCHANGED disk

\* wss.on('connection')
Connection(c) ==
  /\ ~crashed /\ conn[c] = "new"
  /\ conn' = [conn EXCEPT ![c] = "open"]
  /\ botState' = [botState EXCEPT ![c] = NewState]
  /\ out' = << >>
  /\ last' = Event("connection", c, "")
  /\ UNCHANGED << qtable, qprim, EPSILON, disk, crashed, loaded, configured, applied,
                  nobs, nsave, nticks >>

\* ws.on('message'): the text is not JSON, the handler returns
OnUnparseable(c, m) ==
  /\ m.j = "text"
  /\ out' = << >>
  /\ last' = Event("drop", c, "")
  /\ UNCHANGED << mem, disk, crashed >>

\* ws.on('message'): JSON.parse gave null, reading msg.type throws
OnNull(c, m) ==
  /\ m.j = "null"
  /\ Throw
  /\ last' = Event("null", c, "")

\* ws.on('message'), the obs branch
OnObs(c, m) ==
  /\ m.j = "obj" /\ m.type = "obs"
  /\ \E d \in Draws :
       /\ DrawPossible(EPSILON, d)
       /\ last' = [Event("obs", c, BotIdOf(m)) EXCEPT !.greedy = ~d.explore]
       /\ LET botId     == BotIdOf(m)
              stateKey  == discretize(m.obs)
              q1        == ensureState(qtable, qprim, stateKey)
              actionIdx == chooseAction(q1, qprim, stateKey, d)
          IN  IF actionIdx.throws \/ botState[c].null
              THEN Throw
              ELSE /\ qtable' = q1
                   /\ botState' = [botState EXCEPT
                          ![c].recs = Put(@, botId, Rec(stateKey, actionIdx.idx))]
                   /\ out' = << Reply(c, "action", botId,
                                      IF actionIdx.idx < Len(ActionList)
                                      THEN ActionList[actionIdx.idx + 1]
                                      ELSE "") >>
                   /\ nobs' = nobs + 1
                   /\ UNCHANGED << qprim, EPSILON, disk, conn, crashed, loaded, configured,
                                   applied, nsave, nticks >>

\* the reward branch creating the row of the next state before it looks for
\* the pending decision
OnRewardEager(c, m) ==
  /\ m.j = "obj" /\ m.type = "reward"
  /\ last' = Event("reward", c, BotIdOf(m))
  /\ LET botId   == BotIdOf(m)
         reward  == RewardOf(m)
         nextKey == discretize(m.obs)
     IN  IF botState[c].null
         THEN Throw
         ELSE IF botId \notin DOMAIN botState[c].recs
         THEN /\ out' = << >>
              /\ qtable' = ensureState(qtable, qprim, nextKey)
              /\ UNCHANGED << qprim, EPSILON, disk, conn, botState, crashed, loaded, configured,
                              applied, nobs, nsave, nticks >>
         ELSE IF qprim.k # "undef"
         THEN Throw
         ELSE LET rec == botState[c].recs[botId]
              IN  /\ qtable' = updateQ(qtable, rec.state, rec.actionIdx, reward, nextKey)
                  /\ botState' = [botState EXCEPT ![c].recs = Del(@, botId)]
                  /\ applied' = Append(applied,
                                       Call(c, rec.state, rec.actionIdx, reward, nextKey))
                  /\ out' = << >>
                  /\ UNCHANGED << qprim, EPSILON, disk, conn, crashed, loaded, configured,
                                  nobs, nsave, nticks >>

\* the reward branch with one tracker for all connections
OnRewardShared(c, m) ==
  /\ m.j = "obj" /\ m.type = "reward"
  /\ last' = Event("reward", c, BotIdOf(m))
  /\ LET botId   == BotIdOf(m)
         reward  == RewardOf(m)
         nextKey == discretize(m.obs)
         holders == {h \in Conns : ~botState[h].null /\ botId \in DOMAIN botState[h].recs}
     IN  IF botState[c].null
         THEN Throw
         ELSE IF holders = {}
         THEN out' = << >> /\ UNCHANGED << mem, disk, crashed >>
         ELSE IF qprim.k # "undef"
         THEN Throw
         ELSE LET h   == CHOOSE x \in holders : TRUE
                  rec == botState[h].recs[botId]
              IN  /\ qtable' = updateQ(qtable, rec.state, rec.actionIdx, reward, nextKey)
                  /\ botState' = [botState EXCEPT ![h].recs = Del(@, botId)]
                  /\ applied' = Append(applied,
                                       Call(c, rec.state, rec.actionIdx, reward, nextKey))
                  /\ out' = << >>
                  /\ UNCHANGED << qprim, EPSILON, disk, conn, crashed, loaded, configured,
                                  nobs, nsave, nticks >>

\* ws.on('message'), the reward branch
OnReward(c, m) ==
  /\ m.j = "obj" /\ m.type = "reward"
  /\ last' = Event("reward", c, BotIdOf(m))
  /\ LET botId   == BotIdOf(m)
         reward  == RewardOf(m)
         nextKey == discretize(m.obs)
     IN  IF botState[c].null
         THEN Throw
         ELSE IF botId \notin DOMAIN botState[c].recs
         THEN out' = << >> /\ UNCHANGED << mem, disk, crashed >>
         ELSE IF qprim.k # "undef"
         THEN Throw
         ELSE LET rec == botState[c].recs[botId]
              IN  /\ qtable' = updateQ(qtable, rec.state, rec.actionIdx, reward, nextKey)
                  /\ botState' = [botState EXCEPT ![c].recs = Del(@, botId)]
                  /\ applied' = Append(applied,
                                       Call(c, rec.state, rec.actionIdx, reward, nextKey))
                  /\ out' = << >>
                  /\ UNCHANGED << qprim, EPSILON, disk, conn, crashed, loaded, configured,
                                  nobs, nsave, nticks >>

\* ws.on('message'), the save branch
OnSave(c, m) ==
  /\ m.j = "obj" /\ m.type = "save"
  /\ nsave' = nsave + 1
  /\ disk' \in Written(disk, qtable, qprim)
  /\ out' = << Reply(c, "ok", "", "") >>
  /\ last' = Event("save", c, "")
  /\ UNCHANGED << qtable, qprim, EPSILON, conn, botState, crashed, loaded, configured, applied,
                  nobs, nticks >>

\* ws.on('message'), the ping branch
OnPing(c, m) ==
  /\ m.j = "obj" /\ m.type = "ping"
  /\ out' = << Reply(c, "pong", "", "") >>
  /\ last' = Event("ping", c, "")
  /\ UNCHANGED << mem, disk, crashed >>

\* ws.on('message'): no branch matches
OnOther(c, m) ==
  /\ m.j = "prim" \/ (m.j = "obj" /\ m.type \notin {"obs", "reward", "save", "ping"})
  /\ out' = << >>
  /\ last' = Event("other", c, "")
  /\ UNCHANGED << mem, disk, crashed >>

\* ws.on('message'): one payload delivered to the handler of connection c.
\* conn[c] = "closed" is a message event delivered after the close event.
OnMessage(c, m) ==
  /\ ~crashed /\ conn[c] \in {"open", "closed"}
  /\ \/ OnUnparseable(c, m)
     \/ OnNull(c, m)
     \/ OnObs(c, m)
     \/ OnReward(c, m)
     \/ OnSave(c, m)
     \/ OnPing(c, m)
     \/ OnOther(c, m)

\* ws.on('close'): the client left, or the keep-alive timer terminated it
Close(c) ==
  /\ ~crashed /\ conn[c] = "open"
  /\ conn' = [conn EXCEPT ![c] = "closed"]
  /\ botState' = [botState EXCEPT ![c] = NullState]
  /\ out' = << >>
  /\ last' = Event("close", c, "")
  /\ UNCHANGED << qtable, qprim, EPSILON, disk, crashed, loaded, configured, applied,
                  nobs, nsave, nticks >>

\* the timer with the decay inside the try block, after the write
TickDecayInTry ==
  /\ ~crashed
  /\ disk' \in Written(disk, qtable, qprim)
  /\ EPSILON' = IF disk' = Serialize(qtable, qprim) THEN EpsDecay(EPSILON) ELSE EPSILON
  /\ nticks' = nticks + 1
  /\ out' = << >>
  /\ last' = Event("tick", "", "")
  /\ UNCHANGED << qtable, qprim, conn, botState, crashed, loaded, configured, applied,
                  nobs, nsave >>

\* the autosave / decay timer
Tick ==
  /\ ~crashed
  /\ disk' \in Written(disk, qtable, qprim)
  /\ EPSILON' = EpsDecay(EPSILON)
  /\ nticks' = nticks + 1
  /\ out' = << >>
  /\ last' = Event("tick", "", "")
  /\ UNCHANGED << qtable, qprim, conn, botState, crashed, loaded, configured, applied,
                  nobs, nsave >>

\* the HTTP request handler: GET /qtable, GET /save, anything else
Urls == {"/qtable", "/save", "/"}

Http(url) ==
  /\ ~crashed
  /\ IF url = "/save"
     THEN /\ nsave' = nsave + 1
          /\ disk' \in Written(disk, qtable, qprim)
     ELSE UNCHANGED << disk, nsave >>
  /\ out' = << Reply("http", url, "",
                     IF url = "/qtable" THEN ToString(Cardinality(DOMAIN qtable)) ELSE "") >>
  /\ last' = Event("http", "", "")
  /\ UNCHANGED << qtable, qprim, EPSILON, conn, botState, crashed, loaded, configured, applied,
                  nobs, nticks >>

\* ------------------------------------------------------------ environments
IsObs(m)    == m.j = "obj" /\ m.type = "obs"
IsReward(m) == m.j = "obj" /\ m.type = "reward"
IsSave(m)   == m.j = "obj" /\ m.type = "save"

\* a reward that finds a pending decision
Matched(c, m) ==
  IsReward(m) /\ ~botState[c].null /\ BotIdOf(m) \in DOMAIN botState[c].recs

\* the part of the behaviours that is explored
Allowed(c, m, maxObs, maxUpdates, maxSaves) ==
  /\ IsObs(m) => nobs < maxObs
  /\ Matched(c, m) => Len(applied) < maxUpdates
  /\ IsSave(m) => nsave < maxSaves

\* clients connect, send messages and leave
Traffic(conns, msgs, maxObs, maxUpdates, maxSaves) ==
  \/ \E c \in conns : Connection(c)
  \/ \E c \in conns, m \in msgs :
       Allowed(c, m, maxObs, maxUpdates, maxSaves) /\ OnMessage(c, m)
  \/ \E c \in conns : Close(c)

\* one client, every kind of message except save
Next == Traffic({"c1"}, Msgs \ {m \in Msgs : IsSave(m)}, MaxObs, MaxUpdates, 0)

Spec == Init /\ [][Next]_vars

\* two clients driving the same bot identifier
PairMsgs ==
  {m \in ObsMsgs \cup RewardMsgs :
     m.botId = Str("b1") /\ (m.type = "reward" => m.reward = Num(5, 0))}

NextPair == Traffic(Conns, PairMsgs, MaxPairObs, MaxPairUpdates, 0)

SpecPair == Init /\ [][NextPair]_vars

\* the timers and the HTTP endpoints of the process
Host(maxSaves, maxTicks) ==
  \/ nticks < maxTicks /\ Tick
  \/ \E url \in Urls : (url = "/save" => nsave < maxSaves) /\ Http(url)

\* the server started on a file it did not write: one client, saves and timers
NextForeign ==
  \/ Traffic({"c1"}, Msgs, MaxObs, MaxUpdates, MaxSaves)
  \/ Host(MaxSaves, MaxTicks)

SpecForeign == Startup(ForeignDiskInputs, {EpsDefault}) /\ [][NextForeign]_vars

\* one client sending observations to a server started on any of the policy files
PolicyMsgs == {m \in ObsMsgs : m.botId = Str("b1")}

NextPolicy == Traffic({"c1"}, PolicyMsgs, MaxPolicyObs, 0, 0)

SpecPolicy == Startup(PolicyDiskInputs, {EpsDefault}) /\ [][NextPolicy]_vars

\* one client and the timer, the server started with any configured rate
RateMsgs == {m \in ObsMsgs \cup RewardMsgs :
               m.botId = Str("b1") /\ (m.type = "reward" => m.reward = Num(5, 0))}

NextRate ==
  \/ Traffic({"c1"}, RateMsgs, MaxPolicyObs, MaxUpdates, 0)
  \/ Host(0, MaxTicks)

SpecRate == Startup({NoFile}, EpsilonInputs) /\ [][NextRate]_vars

\* one client that also asks for saves, the HTTP endpoints and the timer
SinkMsgs == {m \in Msgs : IsSave(m)} \cup
            {m \in ObsMsgs \cup RewardMsgs :
               /\ m.botId = Str("b1") /\ m.obs = SpecObs
               /\ m.type = "reward" => m.reward = Num(5, 0)}

NextSink ==
  \/ Traffic({"c1"}, SinkMsgs, MaxPolicyObs, MaxUpdates, MaxSaves)
  \/ Host(MaxSaves, MaxTicks)

SpecSink == Startup(DiskInputs, {EpsDefault}) /\ [][NextSink]_vars

\* one client sending observations of every shape
KeyMsgs == {Msg("obj", "obs", Str("b1"), o, Undef) : o \in KeyObsInputs}

NextKey == Traffic({"c1"}, KeyMsgs, MaxPolicyObs, 0, 0)

SpecKey == Startup({NoFile}, {EpsDefault}) /\ [][NextKey]_vars

\* one client whose observations carry no identifier or the number 1 and
\* whose rewards carry 0, "", "unknown" or "1": no reward carries an
\* identifier an observation carried
IdMsgs ==
  {Msg("obj", "obs", b, SpecObs, Undef) : b \in {Undef, Num(1, 0)}} \cup
  {Msg("obj", "reward", b, SpecObs, Num(5, 0)) :
     b \in {Zero, Str(""), Str("unknown"), Str("1")}}

NextIds == Traffic({"c1"}, IdMsgs, MaxObs, MaxUpdates, 0)

SpecIds == Startup(DiskInputs, {EpsDefault}) /\ [][NextIds]_vars

\* ------------------------------------------------------------------ claims
ZeroRow == << Zero, Zero, Zero, Zero, Zero, Zero >>

\* the pending decision a matched reward consumes
Pending(c, m) == botState[c].recs[BotIdOf(m)]

\* every entry of the table except row s, index a (0-based) is as before
OthersKept(s, a) ==
  \A k \in DOMAIN qtable :
    /\ k \in DOMAIN qtable'
    /\ Len(qtable'[k]) = Len(qtable[k])
    /\ \A i \in 1 .. Len(qtable[k]) : (k # s \/ i # a + 1) => qtable'[k][i] = qtable[k][i]

\* C1: a reward (r, o') for a bot with the pending decision (s, a) on that
\* connection sets table[s][a] to current + alpha * (r + gamma * bestNext - current),
\* current and bestNext (the maximum of the row of discretize(o'), 0 for a row
\* created now) read as the reward is processed; no other existing entry
\* changes, the only new row is an all-zero row for the next state, and the
\* pending decision is cleared.
C1_RewardUpdate ==
  [][last'.ev = "reward" => \A c \in Conns, m \in RewardMsgs :
       (Matched(c, m) /\ OnMessage(c, m)) =>
         LET s        == Pending(c, m).state
             a        == Pending(c, m).actionIdx
             nk       == discretize(m.obs)
             r        == RewardOf(m)
             current  == qtable[s][a + 1]
             bestNext == IF nk \in DOMAIN qtable THEN MathMax(qtable[nk]) ELSE Zero
         IN  /\ ~crashed'
             /\ qtable'[s][a + 1] =
                  Add(current, Mul(ALPHA, Sub(Add(r, Mul(GAMMA, bestNext)), current)))
             /\ OthersKept(s, a)
             /\ DOMAIN qtable' = DOMAIN qtable \cup {nk}
             /\ nk \notin DOMAIN qtable => qtable'[nk] = ZeroRow
             /\ BotIdOf(m) \notin DOMAIN botState'[c].recs
    ]_vars

\* C1 witness: reward 5 was applied to the loaded entry 1 with bestNext = 1:
\* 1 + 0.12 * (5 + 0.96 * 1 - 1) = 997 / 625
C1_Witness ==
  /\ last.ev = "reward" /\ Len(applied) = 1
  /\ discretize(SpecObs) \in DOMAIN qtable
  /\ qtable[discretize(SpecObs)][4] = Num(997, 2)
  /\ last.bot \notin DOMAIN botState[last.c].recs

\* C2: an open connection holds at most one pending decision per bot: an
\* observation replaces the bot's pending decision by (discretize(obs), the
\* action sent in the response) and leaves the other bots' decisions alone; a matched reward
\* removes exactly that decision and changes no table entry but the one it
\* names; a reward that finds no pending decision changes neither the table
\* nor the tracker.
C2_OnePending ==
  [][last'.ev \in {"obs", "reward"} =>
       \A c \in Conns, m \in ObsMsgs \cup RewardMsgs :
         (conn[c] = "open" /\ OnMessage(c, m)) =>
           LET b     == BotIdOf(m)
               recs  == botState[c].recs
               recs1 == botState'[c].recs
           IN  /\ ~crashed'
               /\ IsObs(m) =>
                    /\ DOMAIN recs1 = DOMAIN recs \cup {b}
                    /\ recs1[b].state = discretize(m.obs)
                    /\ Len(out') = 1
                    /\ recs1[b].actionIdx \in 0 .. 5
                    /\ out'[1].action = ActionList[recs1[b].actionIdx + 1]
                    /\ \A b2 \in DOMAIN recs \ {b} : recs1[b2] = recs[b2]
               /\ Matched(c, m) =>
                    /\ DOMAIN recs1 = DOMAIN recs \ {b}
                    /\ \A b2 \in DOMAIN recs1 : recs1[b2] = recs[b2]
                    /\ OthersKept(recs[b].state, recs[b].actionIdx)
               /\ (IsReward(m) /\ ~Matched(c, m)) =>
                    /\ qtable' = qtable
                    /\ botState' = botState
    ]_vars

\* C2 witness: two observations of different states and one applied update
\* with nothing left pending: the first decision was replaced, the second
\* one was consumed by the reward, and only the row of the second changed
C2_Witness ==
  /\ ~crashed /\ last.ev = "reward" /\ conn["c1"] = "open"
  /\ nobs = 2 /\ Len(applied) = 1
  /\ botState["c1"].recs = EmptyFn
  /\ loaded = EmptyFn
  /\ DOMAIN qtable = {discretize(SpecObs), discretize(EmptyObs)}
  /\ \E k \in DOMAIN qtable : qtable[k] = ZeroRow /\ applied[1].s # k

\* C3: a reward for a bot with no pending decision on its (open) connection
\* changes nothing: the table, the exploration rate, the trackers and the
\* connections are as before, no row is created for the next state, nothing
\* is written or sent, and the server keeps running.
C3_IgnoredReward ==
  [][last'.ev = "reward" => \A c \in Conns, m \in RewardMsgs :
       (conn[c] = "open" /\ ~Matched(c, m) /\ OnMessage(c, m)) =>
         /\ UNCHANGED << qtable, qprim, EPSILON, disk, conn, botState, applied >>
         /\ out' = << >>
         /\ ~crashed'
    ]_vars

\* C3 witness: a reward carrying a next state the table has no row for was
\* delivered for a bot with nothing pending, and the table has no such row
C3_Witness ==
  /\ ~crashed /\ last.ev = "reward" /\ conn[last.c] = "open"
  /\ last.bot \notin DOMAIN botState[last.c].recs
  /\ applied = << >>
  /\ discretize(EmptyObs) \notin DOMAIN qtable
  /\ nobs = 1

\* the learning rule applied to a table as one step of a serial execution:
\* rows for s and sNext exist afterwards, entry (s, a) moves by
\* alpha * (r + gamma * max(row sNext) - entry), nothing else changes
SerialStep(t, call) ==
  LET rows == DOMAIN t \cup {call.s, call.sNext}
      t1   == [k \in rows |-> IF k \in DOMAIN t THEN t[k] ELSE ZeroRow]
      cur  == t1[call.s][call.a + 1]
      best == MathMax(t1[call.sNext])
      new  == Add(cur, Mul(ALPHA, Sub(Add(call.r, Mul(GAMMA, best)), cur)))
  IN  [k \in rows |->
         IF k = call.s
         THEN [i \in 1 .. Len(t1[k]) |-> IF i = call.a + 1 THEN new ELSE t1[k][i]]
         ELSE t1[k]]

RECURSIVE Serial(_, _)
Serial(t, calls) ==
  IF calls = << >> THEN t ELSE Serial(SerialStep(t, Head(calls)), Tail(calls))

\* C8: whatever the interleaving of the connections' messages, the table is
\* the one a serial execution of the applied updates, in the order the
\* rewards were processed, produces from the table present at startup: no
\* update is lost, and the rows the updates never touched are the all-zero
\* rows the observations created.
C8_Serial ==
  LET t == Serial(loaded, applied)
  IN  /\ DOMAIN t \subseteq DOMAIN qtable
      /\ \A k \in DOMAIN t : qtable[k] = t[k]
      /\ \A k \in DOMAIN qtable \ DOMAIN t : qtable[k] = ZeroRow

\* C8 witness: two updates of the same entry, one from each connection, the
\* second one made with the first one's result as its current value
C8_Witness ==
  /\ ~crashed /\ Len(applied) = 2
  /\ applied[1].c # applied[2].c
  /\ applied[1].s = applied[2].s /\ applied[1].a = applied[2].a
  /\ applied[1].r = Num(5, 0) /\ applied[2].r = Num(5, 0)
  /\ qtable[applied[1].s][applied[1].a + 1]
       # Serial(loaded, << applied[1] >>)[applied[1].s][applied[1].a + 1]

\* C9: the pending decisions of a connection are its own: a message on an
\* open connection leaves the trackers of the other connections as they were,
\* and a reward on a connection where the bot has nothing pending updates
\* nothing, whatever is pending for that bot on another connection.
C9_OwnTracker ==
  [][(last'.ev \in {"obs", "reward"} /\ conn[last'.c] = "open") =>
       /\ ~crashed'
       /\ \A c \in Conns \ {last'.c} : botState'[c] = botState[c]
       /\ (last'.ev = "reward" /\ last'.bot \notin DOMAIN botState[last'.c].recs) =>
            /\ qtable' = qtable
            /\ applied' = applied
    ]_vars

\* C9 witness: a reward for bot b1 arrived on c2 while b1's decision was
\* pending on c1 only; it is still pending there and no update was applied
C9_Witness ==
  /\ ~crashed /\ last = Event("reward", "c2", "b1")
  /\ conn["c1"] = "open" /\ conn["c2"] = "open"
  /\ "b1" \in DOMAIN botState["c1"].recs
  /\ "b1" \notin DOMAIN botState["c2"].recs
  /\ applied = << >>

\* C4: a payload that is neither a well-formed observation nor a matched
\* reward (text that does not parse, JSON that is not a message object, a
\* message of an unknown kind) delivered on an open connection is dropped:
\* the process keeps running, the connection stays open, the table and the
\* trackers are untouched and nothing is sent.
C4_JunkDropped ==
  [][(last'.ev \in {"drop", "null", "other"} /\ conn[last'.c] = "open") =>
       /\ ~crashed'
       /\ conn' = conn
       /\ UNCHANGED << qtable, qprim, botState, EPSILON, disk >>
       /\ out' = << >>
    ]_vars

\* C5: an observation on an open connection yields exactly one response, on
\* that connection, with the message's bot identifier and an action that is
\* one of the six action strings, whatever table was loaded at startup.
C5_ObsAnswered ==
  [][(last'.ev = "obs" /\ conn[last'.c] = "open") =>
       /\ ~crashed'
       /\ Len(out') = 1
       /\ out'[1].to = last'.c
       /\ out'[1].type = "action"
       /\ out'[1].botId = last'.bot
       /\ \E i \in 1 .. Len(ActionList) : out'[1].action = ActionList[i]
    ]_vars

\* C6: every row of the table has exactly 6 entries, in every state from the
\* startup load on.
C6_RowLength ==
  \A k \in DOMAIN qtable : Len(qtable[k]) = Len(ActionList)

\* C7: every value stored in the table is a finite number, whatever the
\* reward fields of the messages held.
C7_FiniteValues ==
  \A k \in DOMAIN qtable : \A i \in 1 .. Len(qtable[k]) : IsFinite(qtable[k][i])

\* C10: the close of a connection empties its tracker, leaves the table as
\* it is and keeps the process running; an observation or a reward delivered
\* for the connection after its close applies no update and does not end the
\* process either.
C10_CloseDiscards ==
  [][(last'.ev = "close" =>
        /\ ~crashed'
        /\ botState'[last'.c].recs = EmptyFn
        /\ qtable' = qtable
        /\ applied' = applied)
     /\ ((last'.ev \in {"obs", "reward"} /\ conn[last'.c] = "closed") =>
           /\ ~crashed'
           /\ applied' = applied)
    ]_vars

\* C11: when the draw is not below the exploration rate, the action recorded
\* and sent for an observation is the index of the largest entry of the
\* state's row (no entry is greater), the lowest such index when entries tie
\* (no earlier entry equals it), and 0 for a row of equal entries such as
\* the zero row created for a new state.
C11_Greedy ==
  [][(last'.ev = "obs" /\ last'.greedy /\ conn[last'.c] = "open") =>
       \A m \in ObsMsgs :
         OnMessage(last'.c, m) =>
           LET row == qtable'[discretize(m.obs)]
               idx == botState'[last'.c].recs[last'.bot].actionIdx
           IN  /\ idx \in 0 .. Len(row) - 1
               /\ \A j \in 1 .. Len(row) : ~Gt(row[j], row[idx + 1])
               /\ \A j \in 1 .. idx : row[j] # row[idx + 1]
               /\ (\A j \in 1 .. Len(row) : row[j] = row[1]) => idx = 0
               /\ out' = << Reply(last'.c, "action", last'.bot, ActionList[idx + 1]) >>
    ]_vars

\* C11 witness: a greedy choice on a loaded row whose largest entry, 2,
\* stands at indices 2 and 4 (0-based): index 2 was recorded
C11_Witness ==
  /\ last.ev = "obs" /\ last.greedy /\ ~crashed
  /\ discretize(SpecObs) \in DOMAIN qtable
  /\ qtable[discretize(SpecObs)] =
       << Num(-1, 0), Zero, Num(2, 0), Zero, Num(2, 0), Num(-1, 0) >>
  /\ last.bot \in DOMAIN botState[last.c].recs
  /\ botState[last.c].recs[last.bot] = Rec(discretize(SpecObs), 2)

\* C12: while the server runs, the exploration rate is in (0, 1] and not
\* below the floor 0.01, from startup on and for every configured value.
C12_RateInRange ==
  ~crashed =>
    /\ EPSILON.n > 0
    /\ EPSILON.n <= EScale * Pow(2000, EPSILON.t)
    /\ EPSILON.n >= EpsFloor.n * Pow(2000, EPSILON.t)

\* max(floor, initial * 0.9995^N) for a configured initial rate
ClosedForm(initial, N) ==
  IF initial.n * Pow(1999, N) <= EpsFloor.n * Pow(2000, N)
  THEN EpsFloor
  ELSE Rate(initial.n * Pow(1999, N), N)

\* two rates are the same number
SameRate(a, b) == a.n * Pow(2000, b.t) = b.n * Pow(2000, a.t)

\* C13: after N ticks, N >= 0, the exploration rate is
\* max(0.01, configured * 0.9995^N), whatever messages came in between.
C13_ClosedForm ==
  ~crashed => SameRate(EPSILON, ClosedForm(configured, nticks))

\* a matched reward of 0 whose best next value, read as the reward is
\* processed, equals the current value of the entry it updates
ZeroGap(c, m) ==
  /\ Matched(c, m) /\ OnMessage(c, m)
  /\ RewardOf(m) = Zero
  /\ LET s  == Pending(c, m).state
         a  == Pending(c, m).actionIdx
         nk == discretize(m.obs)
     IN  qtable[s][a + 1] = (IF nk \in DOMAIN qtable THEN MathMax(qtable[nk]) ELSE Zero)

\* C14 as stated: with reward 0 and bestNext equal to current, updateQ
\* leaves the value as it was.
C14_NoDrift ==
  [][last'.ev = "reward" => \A c \in Conns, m \in RewardMsgs :
       ZeroGap(c, m) =>
         LET s == Pending(c, m).state
             a == Pending(c, m).actionIdx
         IN  qtable'[s][a + 1] = qtable[s][a + 1]
    ]_vars

\* C14 amended: with reward 0 and bestNext equal to current, updateQ stores
\* current * (1 - alpha * (1 - gamma)) = 0.9952 * current: the value stays
\* as it was only when it is 0 and shrinks towards 0 otherwise.
C14_Shrinks ==
  [][last'.ev = "reward" => \A c \in Conns, m \in RewardMsgs :
       ZeroGap(c, m) =>
         LET s == Pending(c, m).state
             a == Pending(c, m).actionIdx
         IN  /\ qtable'[s][a + 1] = Mul(qtable[s][a + 1], Num(622, 2))
             /\ IsFinite(qtable[s][a + 1]) =>
                  (qtable'[s][a + 1] = qtable[s][a + 1] <=> qtable[s][a + 1] = Zero)
    ]_vars

\* C14 witness: reward 0 with the next state equal to the state, applied to
\* the loaded entry 1, the largest of its row: 1 became 622 / 625 = 0.9952
C14_Witness ==
  /\ ~crashed /\ last.ev = "reward" /\ Len(applied) = 1
  /\ applied[1].r = Zero
  /\ applied[1].s = discretize(SpecObs) /\ applied[1].sNext = discretize(SpecObs)
  /\ applied[1].a = 3
  /\ loaded # EmptyFn
  /\ qtable[discretize(SpecObs)][4] = Num(622, 2)

\* C15: the table the server would load from a serialization of its table
\* is that table: the same keys with the same rows.
C15_RoundTrip ==
  ~crashed => LoadRows(Serialize(qtable, qprim)) = qtable

\* a file holding a table: every row has six finite numbers
WellFormed(f) ==
  /\ f.k = "object"
  /\ \A k \in DOMAIN f.rows :
       /\ Len(f.rows[k]) = Len(ActionList)
       /\ \A i \in 1 .. Len(f.rows[k]) : IsFinite(f.rows[k][i])

\* C16: a server started on a file that is absent, unreadable or does not
\* hold a table (JSON of another shape included) starts with an empty table.
C16_CorruptStartsEmpty ==
  (last.ev = "start" /\ ~WellFormed(disk)) => (qtable = EmptyFn /\ qprim = Undef)

\* C17: a write to the file that fails (a save message, GET /save or the
\* timer found the file different from the table and left it as it was)
\* keeps the process running and leaves the table, the trackers and the
\* connections as they were; the save message is still answered and the
\* timer still decays the exploration rate.
C17_WriteFailure ==
  [][(last'.ev \in {"save", "http", "tick"} /\ disk' = disk
        /\ disk # Serialize(qtable, qprim)) =>
       /\ ~crashed'
       /\ UNCHANGED << qtable, qprim, botState, conn, applied >>
       /\ last'.ev = "save" => out' = << Reply(last'.c, "ok", "", "") >>
       /\ last'.ev = "tick" => EPSILON' = EpsDecay(EPSILON)
       /\ last'.ev # "tick" => EPSILON' = EPSILON
    ]_vars

\* C17 witness: the timer fired while the table had an update the file does
\* not have, the write failed, and the rate went from 0.25 to 0.249875
C17_Witness ==
  /\ ~crashed /\ last.ev = "tick" /\ nticks = 1
  /\ Len(applied) = 1
  /\ disk # Serialize(qtable, qprim) /\ disk = Serialize(loaded, Undef)
  /\ EPSILON = Rate(1999 * (EScale \div 4), 1)
  /\ conn["c1"] = "open"

\* the key made of five bucket numbers
KeyOf(h, a, d, z, k) ==
  ToString(h) \o "|" \o ToString(a) \o "|" \o ToString(d) \o "|" \o ToString(z)
    \o "|" \o ToString(k)

\* the distance bucket as specified: v is 999 for an absent distance, 0 for
\* a negative one and the distance rounded to the nearest integer otherwise
SpecDistBucket(dist) ==
  LET v == IF dist.k = "undef" THEN 999
           ELSE IF dist.n < 0 THEN 0
           ELSE (2 * dist.n + Pow25(dist.e)) \div (2 * Pow25(dist.e))
  IN  IF v \div 20 < 4 THEN v \div 20 ELSE 4

\* C18: for an observation whose distance is absent or a number, the key
\* recorded and used has the distance bucket min(4, floor(v / 20)), v being
\* 999 only for an absent distance: every distance in [0, 20), 0 included,
\* is in bucket 0.
C18_DistBucket ==
  [][(last'.ev = "obs" /\ conn[last'.c] = "open") =>
       \A m \in KeyMsgs :
         (OnMessage(last'.c, m) /\ m.obs.dist.k \in {"undef", "num"}
            /\ m.obs.hp.k # "str") =>
           botState'[last'.c].recs[last'.bot].state =
             KeyOf(hpBucket(m.obs).n, ammoBucket(m.obs), SpecDistBucket(m.obs.dist),
                   zoneBit(m.obs), knifeBit(m.obs))
    ]_vars

\* the keys of the specified range
ValidKeys ==
  {KeyOf(h, a, d, z, k) : h \in 0 .. 4, a \in 0 .. 1, d \in 0 .. 4, z \in 0 .. 1, k \in 0 .. 1}

\* C19: every observation, whatever its fields hold, is answered, and the
\* key recorded for it is one of the 5 * 2 * 5 * 2 * 2 keys of the range;
\* health 80, no ammunition, distance 5, in the zone, no knife gives
\* "3|0|0|1|0".
C19_KeyRange ==
  [][(last'.ev = "obs" /\ conn[last'.c] = "open") =>
       /\ ~crashed'
       /\ botState'[last'.c].recs[last'.bot].state \in ValidKeys
       /\ \A m \in KeyMsgs :
            (OnMessage(last'.c, m) /\ m.obs = SpecObs) =>
              botState'[last'.c].recs[last'.bot].state = "3|0|0|1|0"
    ]_vars

\* C20: when no reward carries the identifier of an observation (the
\* observations carry none or the number 1, the rewards 0, "", "unknown" or
\* the string "1"), no reward on an open connection consumes a pending
\* decision or updates the table.
C20_OwnIdentifier ==
  [][(last'.ev = "reward" /\ conn[last'.c] = "open") =>
       /\ botState' = botState
       /\ qtable' = qtable
       /\ applied' = applied
    ]_vars

====
